---------------------------- MODULE Spec2Model ----------------------------
(***************************************************************************)
(* Model of src/main.py: the routing of an update to one of the handlers   *)
(* cmd_start, on_help and handle_video_message, and the media preparation  *)
(* pipeline of the last one (is_url, download_video,                       *)
(* _has_video_stream_sync, prepare_media, compress_if_needed).             *)
(*                                                                         *)
(* Text is a sequence of one-character strings.  Some elements stand for   *)
(* what a TLA+ string cannot hold: "U+2019" is the right single quotation  *)
(* mark and "U+000B", "U+001C", "U+0085", "U+00A0", "U+3000" ... the       *)
(* character of that code point, "0xFF" is a byte that is not valid UTF-8, *)
(* and the one-element text <<"None">> is Python's None.                   *)
(***************************************************************************)
EXTENDS Integers, Sequences, FiniteSets, TLC

\* --------------------------------------------------------------- bounds
\* File sizes range over Cap - 1 .. Cap + MaxOver.
MaxOver == 1

\* ------------------------------------------------------------ constants
TELEGRAM_MAX_FILE_SIZE == 50 * 1024 * 1024

\* ---------------------------------------------------------- text helpers
\* str.strip() and str.split() without arguments take as whitespace every
\* character for which str.isspace() holds.
Whitespace ==
  {" ", "\t", "\n", "\r", "\f", "U+000B", "U+001C", "U+001D", "U+001E", "U+001F",
   "U+0085", "U+00A0", "U+1680", "U+2000", "U+2001", "U+2002", "U+2003", "U+2004",
   "U+2005", "U+2006", "U+2007", "U+2008", "U+2009", "U+200A", "U+2028", "U+2029",
   "U+202F", "U+205F", "U+3000"}

\* None, and `t or ""`
NoneText == <<"None">>
text_or_empty(t) == IF t = NoneText THEN <<>> ELSE t

RECURSIVE LStrip(_)
LStrip(s) ==
  IF s # <<>> /\ Head(s) \in Whitespace THEN LStrip(Tail(s)) ELSE s

RECURSIVE RStrip(_)
RStrip(s) ==
  IF s # <<>> /\ s[Len(s)] \in Whitespace
    THEN RStrip(SubSeq(s, 1, Len(s) - 1))
    ELSE s

Strip(s) == RStrip(LStrip(s))

\* str.startswith(p)
StartsWith(s, p) == Len(s) >= Len(p) /\ SubSeq(s, 1, Len(p)) = p

\* p in s
Contains(s, p) ==
  \E i \in 1..(Len(s) - Len(p) + 1) : SubSeq(s, i, i + Len(p) - 1) = p

\* str.rfind(c), 1-based; 0 when c does not occur (Python: -1)
RFind(s, c) ==
  IF \E i \in 1..Len(s) : s[i] = c
    THEN CHOOSE i \in 1..Len(s) : s[i] = c /\ \A j \in (i + 1)..Len(s) : s[j] # c
    ELSE 0

Uppers == <<"A", "B", "C", "D", "E", "F", "G", "H", "I", "J", "K", "L", "M", "N", "O", "P", "Q",
      "R", "S", "T", "U", "V", "W", "X", "Y", "Z">>
Lowers == <<"a", "b", "c", "d", "e", "f", "g", "h", "i", "j", "k", "l", "m", "n", "o", "p", "q",
      "r", "s", "t", "u", "v", "w", "x", "y", "z">>

LowerChar(c) ==
  IF \E i \in 1..Len(Uppers) : Uppers[i] = c
    THEN Lowers[CHOOSE i \in 1..Len(Uppers) : Uppers[i] = c]
    ELSE c

\* str.lower()
Lower(s) == [i \in 1..Len(s) |-> LowerChar(s[i])]

\* "%d" % n
Digits == <<"0", "1", "2", "3", "4", "5", "6", "7", "8", "9">>
RECURSIVE NatText(_)
NatText(n) ==
  IF n < 10 THEN <<Digits[n + 1]>> ELSE NatText(n \div 10) \o <<Digits[(n % 10) + 1]>>
IntText(n) == IF n < 0 THEN <<"-">> \o NatText(-n) ELSE NatText(n)

\* str.find(c), 1-based; 0 when c does not occur
Find(s, c) ==
  IF \E i \in 1..Len(s) : s[i] = c
    THEN CHOOSE i \in 1..Len(s) : s[i] = c /\ \A j \in 1..(i - 1) : s[j] # c
    ELSE 0

\* s.split(maxsplit=1)[0], or <<>> when the split gives no item
FirstToken(s) ==
  LET t == LStrip(s)
      ends == {i \in 1..Len(t) : t[i] \in Whitespace}
  IN  IF ends = {} THEN t
      ELSE SubSeq(t, 1, (CHOOSE i \in ends : \A j \in ends : i <= j) - 1)

\* bytes.decode("utf-8", "ignore"): bytes that are not valid UTF-8 are dropped
IsValidByte(b) == b # "0xFF"
Decode(bytes) == SelectSeq(bytes, IsValidByte)

\* repr() of a str without backslashes or control characters: single quotes,
\* unless the text holds a single quote and no double quote.
RECURSIVE EscapeQuotes(_)
EscapeQuotes(s) ==
  IF s = <<>> THEN <<>>
  ELSE IF Head(s) = "'" THEN <<"\\", "'">> \o EscapeQuotes(Tail(s))
  ELSE <<Head(s)>> \o EscapeQuotes(Tail(s))

PyRepr(s) ==
  IF (\E i \in 1..Len(s) : s[i] = "'") /\ ~(\E i \in 1..Len(s) : s[i] = "\"")
    THEN <<"\"">> \o s \o <<"\"">>
    ELSE <<"'">> \o EscapeQuotes(s) \o <<"'">>

\* str() of a list of str: "[" + ", ".join(repr(x)) + "]"
RECURSIVE JoinRepr(_)
JoinRepr(args) ==
  IF args = <<>> THEN <<>>
  ELSE IF Len(args) = 1 THEN PyRepr(args[1])
  ELSE PyRepr(Head(args)) \o <<",", " ">> \o JoinRepr(Tail(args))

PyStrList(args) == <<"[">> \o JoinRepr(args) \o <<"]">>

\* ------------------------------------------------------------------ paths
\* A Path is [dir, name]; NoPath stands for None.
NoPath == [dir |-> <<>>, name |-> <<>>]
NoDir == <<>>

PathStr(p) == p.dir \o <<"/">> \o p.name

\* PurePath.suffix: the final component's last dot and what follows it, unless
\* the dot is the name's first or last character.
suffix(name) ==
  LET i == RFind(name, ".")
  IN  IF 1 < i /\ i < Len(name) THEN SubSeq(name, i, Len(name)) ELSE <<>>

\* PurePath.stem
stem(name) ==
  LET i == RFind(name, ".")
  IN  IF 1 < i /\ i < Len(name) THEN SubSeq(name, 1, i - 1) ELSE name

\* PurePath.with_suffix(suf)
with_suffix(p, suf) ==
  LET old == suffix(p.name)
  IN  [dir |-> p.dir,
       name |-> IF old = <<>> THEN p.name \o suf
                ELSE SubSeq(p.name, 1, Len(p.name) - Len(old)) \o suf]

\* PurePath.with_name(name)
with_name(p, name) == [dir |-> p.dir, name |-> name]

DotMp4 == <<".", "m", "p", "4">>
DotMp3 == <<".", "m", "p", "3">>
CompressedTail == <<"_", "c", "o", "m", "p", "r", "e", "s", "s", "e", "d", ".", "m", "p", "4">>

\* ----------------------------------------------------------------- is_url
HttpPrefix == <<"h", "t", "t", "p", ":", "/", "/">>
HttpsPrefix == <<"h", "t", "t", "p", "s", ":", "/", "/">>

\* faulty variant: the prefix is looked for anywhere in the text
is_url_anywhere(t) == Contains(t, HttpPrefix) \/ Contains(t, HttpsPrefix)

is_url(t) == StartsWith(t, HttpPrefix) \/ StartsWith(t, HttpsPrefix)

\* ------------------------------------------------- _has_video_stream_sync
\* A probe outcome is what running ffprobe gave: avail = FALSE when the tool
\* could not be started, exit its exit status, out the bytes it printed.
\* faulty variant: a probe that cannot be run or fails counts as "no video"
has_video_stream_fail_closed(probe) ==
  IF ~probe.avail \/ probe.exit # 0
    THEN FALSE
    ELSE Strip(Decode(probe.out)) # <<>>

has_video_stream_sync(probe) ==
  IF ~probe.avail \/ probe.exit # 0
    THEN TRUE                              \* except Exception: return True
    ELSE Strip(Decode(probe.out)) # <<>>   \* return bool(out)

\* ---------------------------------------------------------- prepare_media
\* faulty variant: the suffix is compared without lower()
prepare_media_plan_case_sensitive(p, has_video) ==
  IF has_video
    THEN IF suffix(p.name) # DotMp4
           THEN [encoder |-> "reencode_mp4", out |-> with_suffix(p, DotMp4),
                 kind |-> "video"]
           ELSE [encoder |-> "none", out |-> p, kind |-> "video"]
    ELSE [encoder |-> "convert_mp3", out |-> with_suffix(p, DotMp3),
          kind |-> "audio"]

\* Which encoder prepare_media runs on a path, the path it returns, the kind.
prepare_media_plan(p, has_video) ==
  IF has_video
    THEN IF Lower(suffix(p.name)) # DotMp4
           THEN [encoder |-> "reencode_mp4", out |-> with_suffix(p, DotMp4),
                 kind |-> "video"]
           ELSE [encoder |-> "none", out |-> p, kind |-> "video"]
    ELSE [encoder |-> "convert_mp3", out |-> with_suffix(p, DotMp3),
          kind |-> "audio"]

\* The argument lists of the two normalization encoders.
ReencodeCmd(inp, out) ==
  <<<<"f", "f", "m", "p", "e", "g">>, <<"-", "y">>, <<"-", "i">>, PathStr(inp),
    <<"-", "c", ":", "v">>, <<"l", "i", "b", "x", "2", "6", "4">>, <<"-", "p", "r", "e", "s", "e", "t">>,
    <<"v", "e", "r", "y", "f", "a", "s", "t">>, <<"-", "c", "r", "f">>, <<"2", "3">>,
    <<"-", "c", ":", "a">>, <<"a", "a", "c">>, <<"-", "b", ":", "a">>, <<"1", "2", "8", "k">>, PathStr(out)>>

ConvertCmd(inp, out) ==
  <<<<"f", "f", "m", "p", "e", "g">>, <<"-", "y">>, <<"-", "i">>, PathStr(inp),
    <<"-", "v", "n">>, <<"-", "c", ":", "a">>, <<"l", "i", "b", "m", "p", "3", "l", "a", "m", "e">>,
    <<"-", "b", ":", "a">>, <<"1", "9", "2", "k">>, PathStr(out)>>

\* signal.Signals(n).name for the numbers that name a signal (Linux)
SignalNumbers == (1..31) \cup {34, 64}
SignalName(n) ==
    CASE n = 1 -> <<"S", "I", "G", "H", "U", "P">>
      [] n = 2 -> <<"S", "I", "G", "I", "N", "T">>
      [] n = 3 -> <<"S", "I", "G", "Q", "U", "I", "T">>
      [] n = 4 -> <<"S", "I", "G", "I", "L", "L">>
      [] n = 5 -> <<"S", "I", "G", "T", "R", "A", "P">>
      [] n = 6 -> <<"S", "I", "G", "A", "B", "R", "T">>
      [] n = 7 -> <<"S", "I", "G", "B", "U", "S">>
      [] n = 8 -> <<"S", "I", "G", "F", "P", "E">>
      [] n = 9 -> <<"S", "I", "G", "K", "I", "L", "L">>
      [] n = 10 -> <<"S", "I", "G", "U", "S", "R", "1">>
      [] n = 11 -> <<"S", "I", "G", "S", "E", "G", "V">>
      [] n = 12 -> <<"S", "I", "G", "U", "S", "R", "2">>
      [] n = 13 -> <<"S", "I", "G", "P", "I", "P", "E">>
      [] n = 14 -> <<"S", "I", "G", "A", "L", "R", "M">>
      [] n = 15 -> <<"S", "I", "G", "T", "E", "R", "M">>
      [] n = 16 -> <<"S", "I", "G", "S", "T", "K", "F", "L", "T">>
      [] n = 17 -> <<"S", "I", "G", "C", "H", "L", "D">>
      [] n = 18 -> <<"S", "I", "G", "C", "O", "N", "T">>
      [] n = 19 -> <<"S", "I", "G", "S", "T", "O", "P">>
      [] n = 20 -> <<"S", "I", "G", "T", "S", "T", "P">>
      [] n = 21 -> <<"S", "I", "G", "T", "T", "I", "N">>
      [] n = 22 -> <<"S", "I", "G", "T", "T", "O", "U">>
      [] n = 23 -> <<"S", "I", "G", "U", "R", "G">>
      [] n = 24 -> <<"S", "I", "G", "X", "C", "P", "U">>
      [] n = 25 -> <<"S", "I", "G", "X", "F", "S", "Z">>
      [] n = 26 -> <<"S", "I", "G", "V", "T", "A", "L", "R", "M">>
      [] n = 27 -> <<"S", "I", "G", "P", "R", "O", "F">>
      [] n = 28 -> <<"S", "I", "G", "W", "I", "N", "C", "H">>
      [] n = 29 -> <<"S", "I", "G", "I", "O">>
      [] n = 30 -> <<"S", "I", "G", "P", "W", "R">>
      [] n = 31 -> <<"S", "I", "G", "S", "Y", "S">>
      [] n = 34 -> <<"S", "I", "G", "R", "T", "M", "I", "N">>
      [] n = 64 -> <<"S", "I", "G", "R", "T", "M", "A", "X">>

\* str(CalledProcessError(returncode, cmd)) raised by subprocess.run(cmd,
\* check=True); the return code is negative when a signal ended the process
CalledProcessErrorText(cmd, returncode) ==
  <<"C", "o", "m", "m", "a", "n", "d", " ", "'">> \o PyStrList(cmd) \o <<"'", " ">>
    \o (IF returncode < 0
          THEN IF -returncode \in SignalNumbers
                 THEN <<"d", "i", "e", "d", " ", "w", "i", "t", "h", " ", "<", "S", "i", "g", "n", "a", "l",  "s", ".">> \o SignalName(-returncode)
                        \o <<":", " ">> \o IntText(-returncode) \o <<">", ".">>
                 ELSE <<"d", "i", "e", "d", " ", "w", "i", "t", "h", " ", "u", "n", "k", "n", "o", "w", "n",  " ", "s", "i", "g", "n", "a", "l", " ">>
                        \o IntText(-returncode) \o <<".">>
          ELSE <<"r", "e", "t", "u", "r", "n", "e", "d", " ", "n", "o", "n", "-", "z", "e", "r", "o",  " ", "e", "x", "i", "t", " ", "s", "t", "a", "t", "u", "s", " ">>
                 \o IntText(returncode) \o <<".">>)

\* str(FileNotFoundError(2, "No such file or directory", filename))
NoSuchFileText(filename) ==
  <<"[", "E", "r", "r", "n", "o", " ", "2", "]", " ", "N", "o", " ", "s", "u", "c", "h",  " ", "f", "i", "l", "e", " ", "o", "r", " ", "d", "i", "r", "e", "c", "t", "o", "r",  "y", ":", " ">> \o PyRepr(filename)

\* raised by Path.stat() on a missing file
FileNotFoundText(p) == NoSuchFileText(PathStr(p))

\* What subprocess.run(cmd, check=True) raises for an outcome that is not a
\* normal return: FileNotFoundError when the program cannot be started,
\* CalledProcessError when it ends with a status other than 0.
EncoderOk(o) == o.avail /\ o.exit = 0
subprocess_run_error(cmd, o) ==
  IF ~o.avail THEN NoSuchFileText(cmd[1]) ELSE CalledProcessErrorText(cmd, o.exit)

\* ----------------------------------------------------- compress_if_needed
WithinCap(size) == size <= TELEGRAM_MAX_FILE_SIZE

compressed_path_of(p) == with_name(p, stem(p.name) \o CompressedTail)

\* --------------------------------------------------- user-facing messages
MSG_DOWNLOADING == "Downloading..."
MSG_SENDING_AUDIO == "Sending audio..."
MSG_SENDING_VIDEO == "Sending video..."
MSG_VIDEO_TOO_LARGE == "video larger than 50 MB even after compression"
MSG_AUDIO_TOO_LARGE == "audio larger than 50 MB, cannot send"
MSG_CAPTCHA == "YouTube asked for confirmation (captcha/login); blocked by IP"
MSG_GENERIC == "error while downloading or processing the video"
MSG_WELCOME == "Hello! I download videos; send me a link. Maximum file size: 50 MB."
MSG_HELP == "How to use the bot: copy a link, send it, wait, receive the file."

BotPhraseSignIn == <<"S", "i", "g", "n", " ", "i", "n", " ", "t", "o", " ", "c", "o", "n", "f", "i", "r",
      "m", " ", "y", "o", "u", "U+2019", "r", "e", " ", "n", "o", "t", " ", "a", " ", "b",
      "o", "t">>
BotPhraseConfirm == <<"c", "o", "n", "f", "i", "r", "m", " ", "y", "o", "u", "'", "r", "e", " ", "n", "o",
      "t", " ", "a", " ", "b", "o", "t">>

\* faulty variant: only the first of the two phrases is looked for
failure_text_sign_in_only(err_text) ==
  IF Contains(err_text, BotPhraseSignIn) THEN MSG_CAPTCHA ELSE MSG_GENERIC

\* The text the except clause of handle_video_message puts in the status.
failure_text(err_text) ==
  IF Contains(err_text, BotPhraseSignIn) \/ Contains(err_text, BotPhraseConfirm)
    THEN MSG_CAPTCHA
    ELSE MSG_GENERIC

\* -------------------------------------------------- inputs and outcomes
\* The message texts a user may send.
SampleTexts ==
  { <<"h", "t", "t", "p", "s", ":", "/", "/", "y", ".", "b", "e", "/", "a">>,
    <<" ", "U+000B", "h", "t", "t", "p", ":", "/", "/", "y", ".", "b", "e", "/", "a", "\n",
      "U+00A0">>,
    <<"h", "t", "t", "p", ":", "/", "/">>,
    <<"h", "e", "l", "l", "o">>,
    <<"f", "t", "p", ":", "/", "/", "y", ".", "b", "e", "/", "a">>,
    <<"H", "T", "T", "P", ":", "/", "/", "y", ".", "b", "e", "/", "a">>,
    <<"s", "e", "e", " ", "h", "t", "t", "p", "s", ":", "/", "/", "y", ".", "b", "e", "/",
      "a">>,
    <<"h", "t", "t", "p", "s", ":", "/", "y", ".", "b", "e">>,
    <<"h", "t", "t", "p", "x">>,
    <<" ", " ">>,
    <<>>,
    NoneText,
    <<"/", "s", "t", "a", "r", "t">>,
    <<"U+2003", "/", "s", "t", "a", "r", "t", " ", "h", "t", "t", "p", ":", "/", "/", "y">>,
    <<"/", "s", "t", "a", "r", "t", "@", "D", "L", "_", "b", "o", "t">>,
    <<"/", "s", "t", "a", "r", "t", "@", "o", "t", "h", "e", "r">>,
    <<"/", "s", "t", "a", "r", "t", "e", "d">>,
    <<"/", "S", "t", "a", "r", "t">> }

\* The data of the callback queries a user may send (a button pressed).
SampleCallbackData ==
  { <<"h", "e", "l", "p">>, <<"H", "e", "l", "p">>, <<>>, NoneText }

\* (await bot.me()).username
BotUsername == <<"d", "l", "_", "b", "o", "t">>

\* The directories tempfile.mkdtemp(prefix="video_dl_") may return.
WorkDirs ==
  { <<"/", "t", "m", "p", "/", "v", "i", "d", "e", "o", "_", "d", "l", "_", "a", "1">>,
    <<"/", "t", "m", "p", "/", "v", "i", "d", "e", "o", "_", "d", "l", "_", "b", "2">> }

\* The file names the extraction tool may report (title "." ext).
SampleNames ==
  { <<"a", ".", "m", "p", "4">>,
    <<"a", ".", "M", "P", "4">>,
    <<"a", ".", "w", "e", "b", "m">>,
    <<"a", ".", "b", ".", "m", "k", "v">>,
    <<"a", ".", "m", "p", "3">>,
    <<"a">>,
    <<".", "m", "p", "4">>,
    <<"c", "o", "n", "f", "i", "r", "m", " ", "y", "o", "u", "'", "r", "e", " ", "n", "o",
      "t", " ", "a", " ", "b", "o", "t", ".", "w", "e", "b", "m">> }

Sizes == (TELEGRAM_MAX_FILE_SIZE - 1)..(TELEGRAM_MAX_FILE_SIZE + MaxOver)

\* str(e) of the errors the extraction tool may raise.
FetchErrors ==
  { <<"E", "R", "R", "O", "R", ":", " ", "S", "i", "g", "n", " ", "i", "n", " ", "t", "o",
      " ", "c", "o", "n", "f", "i", "r", "m", " ", "y", "o", "u", "U+2019", "r", "e", " ",
      "n", "o", "t", " ", "a", " ", "b", "o", "t">>,
    <<"P", "l", "e", "a", "s", "e", " ", "c", "o", "n", "f", "i", "r", "m", " ", "y", "o",
      "u", "'", "r", "e", " ", "n", "o", "t", " ", "a", " ", "b", "o", "t", ".">>,
    <<"E", "R", "R", "O", "R", ":", " ", "H", "T", "T", "P", " ", "E", "r", "r", "o", "r",
      " ", "4", "0", "3">>,
    <<"c", "o", "n", "f", "i", "r", "m", " ", "y", "o", "u", "U+2019", "r", "e", " ", "n",
      "o", "t", " ", "a", " ", "b", "o", "t">>,
    <<>> }

TransportErrorText == <<"T", "e", "l", "e", "g", "r", "a", "m", " ", "s", "e", "r", "v", "e", "r", " ", "s",
      "a", "y", "s", " ", "-", " ", "B", "a", "d", " ", "R", "e", "q", "u", "e", "s", "t">>
\* str(OSError) of the os.mkdir that failed inside tempfile.mkdtemp, with
\* the directory it tried to create
MkdtempErrorText(d) ==
  <<"[", "E", "r", "r", "n", "o", " ", "2", "8", "]", " ", "N", "o", " ", "s", "p", "a",  "c", "e", " ", "l", "e", "f", "t", " ", "o", "n", " ", "d", "e", "v", "i", "c", "e",  ":", " ">> \o PyRepr(d)

\* What running ffprobe may give.
ProbeOutcomes ==
  { [avail |-> FALSE, exit |-> 0, out |-> <<>>],
    [avail |-> TRUE, exit |-> 1, out |-> <<>>],
    [avail |-> TRUE, exit |-> 1, out |-> <<"v", "i", "d", "e", "o", "\n">>],
    [avail |-> TRUE, exit |-> 0, out |-> <<"v", "i", "d", "e", "o", "\n">>],
    [avail |-> TRUE, exit |-> 0, out |-> <<>>],
    [avail |-> TRUE, exit |-> 0, out |-> <<"\n">>],
    [avail |-> TRUE, exit |-> 0, out |-> <<"0xFF">>] }

\* The titles under which a download may write a file that is not the one whose
\* path it returns (the entries of a playlist are written under their own
\* titles).
EntryNames == { <<"a", ".", "m", "p", "4">>, <<"a", ".", "m", "p", "3">> }

\* What a download that returns the path p may leave in the directory: the file
\* at p, a file under another title, or nothing. _download_video_sync takes the
\* path from the extractor's result and never looks at the disk.
DownloadedFiles(p) ==
  { {} } \cup
  { {[path |-> [dir |-> p.dir, name |-> n], size |-> sz]} :
      n \in {p.name} \cup EntryNames, sz \in Sizes }

\* What a download that fails may leave in the directory: nothing, or the
\* part of a file it had written (yt-dlp writes to name ".part").
DotPart == <<".", "p", "a", "r", "t">>
PartFiles(dir) ==
  { {} } \cup
  { {[path |-> [dir |-> dir, name |-> n \o DotPart], size |-> sz]} :
      n \in SampleNames, sz \in Sizes }

\* The exit statuses of an ffmpeg run: 0, an error status, a signal.
EncoderExits == {0, 1, -9}

\* What running an ffmpeg encoder may give: the program cannot be started, or
\* it ends with some status having written an output file of some size or
\* none.
EncoderOutcomes ==
  { [avail |-> FALSE, exit |-> 0, written |-> FALSE, size |-> 0] }
  \cup { [avail |-> TRUE, exit |-> e, written |-> FALSE, size |-> 0] : e \in EncoderExits }
  \cup { [avail |-> TRUE, exit |-> e, written |-> TRUE, size |-> sz] :
           e \in EncoderExits, sz \in Sizes }

\* ------------------------------------------------------------------ state
VARIABLES
  message_text,   \* message.text as received; NoneText for a callback query
  text,           \* the handler's local text, stripped
  pc,             \* the position: in the router, then in the handler
  tmp_dir,        \* NoDir until mkdtemp returned
  original_path,  \* NoPath until download_video returned
  probe,          \* what ffprobe gave _has_video_stream_sync, until prepare_media goes on
  has_video,      \* prepare_media's local has_video
  prepared_path,
  kind,           \* "none" until prepare_media returned
  final_path,     \* NoPath stands for None
  exc,            \* the exception in flight: [active, text = str(e)]
  fs,             \* the files on disk: a set of [path, size]
  dirs,           \* the directories on disk
  calls,          \* every call made to a tool or to the transport, in order
  parked          \* the locals and calls of a second handler task suspended at an
                  \* await, or NoRequest when the bot handles one message

vars ==
  <<message_text, text, pc, tmp_dir, original_path, probe, has_video, prepared_path,
    kind, final_path, exc, fs, dirs, calls, parked>>

NoProbe == [avail |-> FALSE, exit |-> -1, out |-> <<>>]
NoExc == [active |-> FALSE, text |-> <<>>]
Raise(t) == [active |-> TRUE, text |-> t]
NoRequest == [pc |-> "absent"]

\* A call: what was called (op), the status text it carries (msg), the file it
\* reads (path) and writes (out), whether it returned normally (ok) and, when
\* it did not, the str() of what it raised (err).
Call(op, msg, path, out, ok, err) ==
  [op |-> op, msg |-> msg, path |-> path, out |-> out, ok |-> ok, err |-> err]

Exists(files, p) == \E f \in files : f.path = p
SizeOf(files, p) == (CHOOSE f \in files : f.path = p).size
\* ffmpeg -y overwrites an existing output file
WriteFile(files, p, size) ==
  {f \in files : f.path # p} \cup {[path |-> p, size |-> size]}

\* The files in a directory.
FilesIn(files, d) == {f \in files : f.path.dir = d}

\* An update has arrived: a message, or a callback query.
Init ==
  /\ \/ pc = "route_message" /\ message_text \in SampleTexts
     \/ pc = "route_callback_query" /\ message_text = NoneText
  /\ text = <<>>
  /\ tmp_dir = NoDir
  /\ original_path = NoPath
  /\ probe = NoProbe
  /\ has_video = FALSE
  /\ prepared_path = NoPath
  /\ kind = "none"
  /\ final_path = NoPath
  /\ exc = NoExc
  /\ fs = {}
  /\ dirs = {}
  /\ calls = <<>>
  /\ parked = NoRequest

\* ------------------------------------------------------------ the router
\* The filter CommandStart() of aiogram on a message text: the first item of
\* text.split() is "/" + "start", or that followed by "@" and the bot's user
\* name in any case.
CommandStart(t, username) ==
  /\ text_or_empty(t) # <<>>
  /\ LET full_command == FirstToken(t)
     IN  /\ full_command # <<>>
         /\ full_command[1] = "/"
         /\ LET rest == Tail(full_command)
                at == Find(rest, "@")
                command == IF at = 0 THEN rest ELSE SubSeq(rest, 1, at - 1)
                mention == IF at = 0 THEN <<>> ELSE SubSeq(rest, at + 1, Len(rest))
            IN  /\ (mention # <<>> /\ username # <<>>)
                     => Lower(mention) = Lower(username)
                /\ command = <<"s", "t", "a", "r", "t">>

\* The filter F.text: the message has a text that is not empty.
HasText(t) == text_or_empty(t) # <<>>

\* The handler the router gives a message to: the first one registered whose
\* filter passes (cmd_start, then handle_video_message), or none.
route_message(t) ==
  IF CommandStart(t, BotUsername) THEN "cmd_start"
  ELSE IF HasText(t) THEN "start"
  ELSE "done"

\* The handler the router gives a callback query to: F.data == "help"
route_callback_query(data) ==
  IF data = <<"h", "e", "l", "p">> THEN "on_help" ELSE "done"

RouteMessage ==
  /\ pc = "route_message"
  /\ pc' = route_message(message_text)
  /\ UNCHANGED <<parked, message_text, text, tmp_dir, original_path, probe, has_video,
                 prepared_path, kind, final_path, exc, fs, dirs, calls>>

RouteCallbackQuery ==
  /\ pc = "route_callback_query"
  /\ \E data \in SampleCallbackData : pc' = route_callback_query(data)
  /\ UNCHANGED <<parked, message_text, text, tmp_dir, original_path, probe, has_video,
                 prepared_path, kind, final_path, exc, fs, dirs, calls>>

\* an await of the transport outside any try block: on failure the exception
\* leaves the handler
Answer(op, msg, next) ==
  /\ \E ok \in BOOLEAN :
       /\ calls' = Append(calls, Call(op, msg, NoPath, NoPath, ok,
                          IF ok THEN <<>> ELSE TransportErrorText))
       /\ IF ok
            THEN pc' = next /\ exc' = exc
            ELSE pc' = "raised" /\ exc' = Raise(TransportErrorText)
  /\ UNCHANGED <<parked, message_text, text, tmp_dir, original_path, probe, has_video,
                 prepared_path, kind, final_path, fs, dirs>>

\* ---------------------------------------------------------------- cmd_start
\* await message.answer(text, reply_markup=keyboard)
CmdStart ==
  /\ pc = "cmd_start"
  /\ Answer("answer", MSG_WELCOME, "done")

\* ------------------------------------------------------------------ on_help
\* await callback.answer(); if callback.message: ...
OnHelp ==
  /\ pc = "on_help"
  /\ \E has_message \in BOOLEAN :
       Answer("callback_answer", "", IF has_message THEN "on_help_answer" ELSE "done")

\* await callback.message.answer(...)
OnHelpAnswer ==
  /\ pc = "on_help_answer"
  /\ Answer("answer", MSG_HELP, "done")

\* ---------------------------------------------------- handle_video_message
\* text = (message.text or "").strip(); if not is_url(text): return
CheckUrl ==
  /\ pc = "start"
  /\ text' = Strip(text_or_empty(message_text))
  /\ pc' = IF is_url(text') THEN "answer_status" ELSE "done"
  /\ UNCHANGED <<parked, message_text, tmp_dir, original_path, probe, has_video, prepared_path,
                 kind, final_path, exc, fs, dirs, calls>>

\* status = await message.answer(...), outside the try block
AnswerStatus ==
  /\ pc = "answer_status"
  /\ Answer("answer", MSG_DOWNLOADING, "mkdtemp")

\* faulty variant: mkdtemp may return a directory that is already there
fresh_dirs_any(existing) == WorkDirs

\* tempfile.mkdtemp creates a directory that did not exist
fresh_dirs(existing) == WorkDirs \ existing

\* tmp_dir = tempfile.mkdtemp(prefix="video_dl_")
Mkdtemp ==
  /\ pc = "mkdtemp"
  /\ \/ \E d \in fresh_dirs(dirs) :
          /\ calls' = Append(calls, Call("mkdtemp", "", NoPath,
                                         [dir |-> d, name |-> <<>>], TRUE, <<>>))
          /\ tmp_dir' = d
          /\ dirs' = dirs \cup {d}
          /\ pc' = "download"
          /\ exc' = exc
     \/ \E d \in fresh_dirs(dirs) :
          /\ calls' = Append(calls, Call("mkdtemp", "", NoPath, NoPath, FALSE,
                                         MkdtempErrorText(d)))
          /\ exc' = Raise(MkdtempErrorText(d))
          /\ pc' = "except"
          /\ UNCHANGED <<tmp_dir, dirs>>
  /\ UNCHANGED <<parked, message_text, text, original_path, probe, has_video, prepared_path,
                 kind, final_path, fs>>

\* original_path = await download_video(text, output_dir)
DownloadVideo ==
  /\ pc = "download"
  /\ \/ \E n \in SampleNames :
          LET p == [dir |-> tmp_dir, name |-> n]
          IN  /\ calls' = Append(calls, Call("download", "", NoPath, p, TRUE, <<>>))
              /\ \E written \in DownloadedFiles(p) : fs' = fs \cup written
              /\ original_path' = p
              /\ pc' = "probe"
              /\ exc' = exc
     \/ \E e \in FetchErrors, part \in PartFiles(tmp_dir) :
          /\ calls' = Append(calls,
                        Call("download", "", NoPath, [dir |-> tmp_dir, name |-> <<>>],
                             FALSE, e))
          /\ fs' = fs \cup part
          /\ exc' = Raise(e)
          /\ pc' = "except"
          /\ UNCHANGED original_path
  /\ UNCHANGED <<parked, message_text, text, tmp_dir, probe, has_video, prepared_path, kind,
                 final_path, dirs>>

\* prepare_media: has_video = _has_video_stream_sync(path)
Probe ==
  /\ pc = "probe"
  /\ \E p \in ProbeOutcomes :
       /\ has_video' = has_video_stream_sync(p)
       /\ probe' = p
       /\ calls' = Append(calls,
                     Call("ffprobe", "", original_path, NoPath,
                          p.avail /\ p.exit = 0, <<>>))
  /\ pc' = "normalize"
  /\ UNCHANGED <<parked, message_text, text, tmp_dir, original_path, prepared_path, kind,
                 final_path, exc, fs, dirs>>

\* prepare_media: the rest; prepared_path, kind = its result
PrepareMedia ==
  /\ pc = "normalize"
  /\ \E plan \in {prepare_media_plan(original_path, has_video)} :
       IF plan.encoder = "none"
         THEN /\ prepared_path' = plan.out
              /\ kind' = plan.kind
              /\ pc' = "kind"
              /\ UNCHANGED <<exc, fs, calls>>
         ELSE \E o \in EncoderOutcomes,
                 cmd \in {IF plan.encoder = "reencode_mp4"
                            THEN ReencodeCmd(original_path, plan.out)
                            ELSE ConvertCmd(original_path, plan.out)} :
                /\ fs' = IF o.written THEN WriteFile(fs, plan.out, o.size) ELSE fs
                /\ IF EncoderOk(o)
                     THEN /\ calls' = Append(calls, Call(plan.encoder, "", original_path,
                                                         plan.out, TRUE, <<>>))
                          /\ prepared_path' = plan.out
                          /\ kind' = plan.kind
                          /\ pc' = "kind"
                          /\ exc' = exc
                     ELSE \E err \in {subprocess_run_error(cmd, o)} :
                          /\ calls' = Append(calls, Call(plan.encoder, "", original_path,
                                                         plan.out, FALSE, err))
                          /\ exc' = Raise(err)
                          /\ pc' = "except"
                          /\ UNCHANGED <<prepared_path, kind>>
  /\ probe' = NoProbe      \* _has_video_stream_sync has returned: its locals are gone
  /\ UNCHANGED <<parked, message_text, text, tmp_dir, original_path, has_video, final_path,
                 dirs>>

\* faulty variant: an audio goes through compress_if_needed as well
KindBranch_always_compress ==
  /\ pc = "kind"
  /\ final_path' = final_path
  /\ pc' = "compress_stat"
  /\ UNCHANGED <<parked, message_text, text, tmp_dir, original_path, probe, has_video,
                 prepared_path, kind, exc, fs, dirs, calls>>

\* if kind == "audio": final_path = prepared_path; else: compress_if_needed
KindBranch ==
  /\ pc = "kind"
  /\ IF kind = "audio"
       THEN final_path' = prepared_path /\ pc' = "final"
       ELSE final_path' = final_path /\ pc' = "compress_stat"
  /\ UNCHANGED <<parked, message_text, text, tmp_dir, original_path, probe, has_video,
                 prepared_path, kind, exc, fs, dirs, calls>>

\* compress_if_needed: size = path.stat().st_size; if size <= cap: return path
CompressStat ==
  /\ pc = "compress_stat"
  /\ IF ~Exists(fs, prepared_path)
       THEN /\ exc' = Raise(FileNotFoundText(prepared_path))
            /\ pc' = "except"
            /\ final_path' = final_path
       ELSE IF WithinCap(SizeOf(fs, prepared_path))
         THEN final_path' = prepared_path /\ pc' = "final" /\ exc' = exc
         ELSE final_path' = final_path /\ pc' = "compress_run" /\ exc' = exc
  /\ UNCHANGED <<parked, message_text, text, tmp_dir, original_path, probe, has_video,
                 prepared_path, kind, fs, dirs, calls>>

\* faulty variant: the size of the compressed file is not looked at
compress_result_exists_only(files, cp) ==
  IF Exists(files, cp) THEN cp ELSE NoPath

\* compress_if_needed: what it returns once the encoder has returned normally
compress_result(files, cp) ==
  IF Exists(files, cp) /\ WithinCap(SizeOf(files, cp)) THEN cp ELSE NoPath

\* faulty variant: a file that is still too large is compressed again
after_compress_retry(result) == IF result = NoPath THEN "compress_run" ELSE "final"

\* where the handler goes once compress_if_needed has returned `result`: there
\* is no loop around the encoder
after_compress(result) == "final"

\* compress_if_needed: the one run of the compression encoder and the check of
\* what it wrote
CompressRun ==
  /\ pc = "compress_run"
  /\ LET cp == compressed_path_of(prepared_path)
     IN  \E o \in EncoderOutcomes :
           /\ calls' = Append(calls, Call("compress", "", prepared_path, cp,
                                          EncoderOk(o), <<>>))
           /\ fs' = IF o.written THEN WriteFile(fs, cp, o.size) ELSE fs
           /\ final_path' = IF EncoderOk(o)
                               THEN compress_result(fs', cp)
                               ELSE NoPath         \* except Exception: return None
  /\ pc' = after_compress(final_path')
  /\ UNCHANGED <<parked, message_text, text, tmp_dir, original_path, probe, has_video,
                 prepared_path, kind, exc, dirs>>

\* faulty variant: the test for None is missing
after_final_unchecked(fp, k) ==
  IF k = "audio" THEN "sending_audio" ELSE "sending_video"

\* if final_path is None: ...; if kind == "audio": ... else: ...
after_final(fp, k) ==
  IF fp = NoPath THEN "video_too_large"
  ELSE IF k = "audio" THEN "sending_audio"
  ELSE "sending_video"

FinalBranch ==
  /\ pc = "final"
  /\ pc' = after_final(final_path, kind)
  /\ UNCHANGED <<parked, message_text, text, tmp_dir, original_path, probe, has_video,
                 prepared_path, kind, final_path, exc, fs, dirs, calls>>

\* await status.edit_text(msg) inside the try block: on success the handler
\* goes on to `next`, on failure the exception reaches the except clause.
EditText(msg, next) ==
  /\ \E ok \in BOOLEAN :
       /\ calls' = Append(calls, Call("edit_text", msg, NoPath, NoPath, ok,
                          IF ok THEN <<>> ELSE TransportErrorText))
       /\ IF ok
            THEN pc' = next /\ exc' = exc
            ELSE pc' = "except" /\ exc' = Raise(TransportErrorText)
  /\ UNCHANGED <<parked, message_text, text, tmp_dir, original_path, probe, has_video,
                 prepared_path, kind, final_path, fs, dirs>>

\* the 50 MB message for a video, then return
ReportVideoTooLarge ==
  /\ pc = "video_too_large"
  /\ EditText(MSG_VIDEO_TOO_LARGE, "finally")

EditSendingAudio ==
  /\ pc = "sending_audio"
  /\ EditText(MSG_SENDING_AUDIO, "audio_stat")

\* faulty variant: the comparison is the wrong way round
ExceedsCap_inverted(size) == size < TELEGRAM_MAX_FILE_SIZE

ExceedsCap(size) == size > TELEGRAM_MAX_FILE_SIZE

\* if final_path.stat().st_size > TELEGRAM_MAX_FILE_SIZE
AudioStat ==
  /\ pc = "audio_stat"
  /\ IF ~Exists(fs, final_path)
       THEN exc' = Raise(FileNotFoundText(final_path)) /\ pc' = "except"
       ELSE /\ exc' = exc
            /\ pc' = IF ExceedsCap(SizeOf(fs, final_path))
                       THEN "audio_too_large"
                       ELSE "answer_audio"
  /\ UNCHANGED <<parked, message_text, text, tmp_dir, original_path, probe, has_video,
                 prepared_path, kind, final_path, fs, dirs, calls>>

\* the 50 MB message for an audio, then return
ReportAudioTooLarge ==
  /\ pc = "audio_too_large"
  /\ EditText(MSG_AUDIO_TOO_LARGE, "finally")

EditSendingVideo ==
  /\ pc = "sending_video"
  /\ EditText(MSG_SENDING_VIDEO, "answer_video")

\* await message.answer_audio / answer_video (op) with the file final_path
Deliver(op) ==
  /\ \E ok \in BOOLEAN :
       /\ calls' = Append(calls, Call(op, "", final_path, NoPath, ok,
                          IF ok THEN <<>> ELSE TransportErrorText))
       /\ IF ok
            THEN pc' = "delete_status" /\ exc' = exc
            ELSE pc' = "except" /\ exc' = Raise(TransportErrorText)
  /\ UNCHANGED <<parked, message_text, text, tmp_dir, original_path, probe, has_video,
                 prepared_path, kind, final_path, fs, dirs>>

AnswerAudio ==
  /\ pc = "answer_audio"
  /\ Deliver("answer_audio")

AnswerVideo ==
  /\ pc = "answer_video"
  /\ Deliver("answer_video")

\* faulty variant: status.delete() is not wrapped in try/except
DeleteStatus_unguarded ==
  /\ pc = "delete_status"
  /\ \E ok \in BOOLEAN :
       /\ calls' = Append(calls,
                     Call("delete", "", NoPath, NoPath, ok,
                          IF ok THEN <<>> ELSE TransportErrorText))
       /\ IF ok
            THEN pc' = "finally" /\ exc' = exc
            ELSE pc' = "except" /\ exc' = Raise(TransportErrorText)
  /\ UNCHANGED <<parked, message_text, text, tmp_dir, original_path, probe, has_video,
                 prepared_path, kind, final_path, fs, dirs>>

\* try: await status.delete() except Exception: pass
DeleteStatus ==
  /\ pc = "delete_status"
  /\ \E ok \in BOOLEAN :
       calls' = Append(calls,
                 Call("delete", "", NoPath, NoPath, ok,
                      IF ok THEN <<>> ELSE TransportErrorText))
  /\ pc' = "finally"
  /\ UNCHANGED <<parked, message_text, text, tmp_dir, original_path, probe, has_video,
                 prepared_path, kind, final_path, exc, fs, dirs>>

\* except Exception as e: the edit of the status to failure_text(str(e)); an
\* exception of that edit leaves the handler once the finally clause has run
Except ==
  /\ pc = "except"
  /\ \E ok \in BOOLEAN :
       /\ calls' = Append(calls,
                     Call("edit_text", failure_text(exc.text), NoPath, NoPath, ok,
                          IF ok THEN <<>> ELSE TransportErrorText))
       /\ exc' = IF ok THEN NoExc ELSE Raise(TransportErrorText)
  /\ pc' = "finally"
  /\ UNCHANGED <<parked, message_text, text, tmp_dir, original_path, probe, has_video,
                 prepared_path, kind, final_path, fs, dirs>>

\* faulty variant: the cleanup is skipped while an exception is leaving the handler
cleanup_skipped_on_error(dir) == dir # NoDir /\ ~exc.active

\* finally: if tmp_dir is not None: shutil.rmtree(tmp_dir, ignore_errors=True)
cleanup_due(dir) == dir # NoDir

\* rmtree with ignore_errors removes what it can: the files it could not
\* remove stay (left), and the directory stays unless it was emptied and
\* could be removed itself
Finally ==
  /\ pc = "finally"
  /\ IF cleanup_due(tmp_dir)
       THEN \E left \in SUBSET FilesIn(fs, tmp_dir), removed \in BOOLEAN :
              /\ removed => left = {}
              /\ calls' = Append(calls,
                            Call("rmtree", "", [dir |-> tmp_dir, name |-> <<>>],
                                 NoPath, TRUE, <<>>))
              /\ dirs' = IF removed THEN dirs \ {tmp_dir} ELSE dirs
              /\ fs' = {f \in fs : f.path.dir # tmp_dir} \cup left
       ELSE UNCHANGED <<calls, dirs, fs>>
  /\ pc' = IF exc.active THEN "raised" ELSE "done"
  /\ UNCHANGED <<parked, message_text, text, tmp_dir, original_path, probe, has_video,
                 prepared_path, kind, final_path, exc>>

Next ==
  \/ RouteMessage
  \/ RouteCallbackQuery
  \/ CmdStart
  \/ OnHelp
  \/ OnHelpAnswer
  \/ CheckUrl
  \/ AnswerStatus
  \/ Mkdtemp
  \/ DownloadVideo
  \/ Probe
  \/ PrepareMedia
  \/ KindBranch
  \/ CompressStat
  \/ CompressRun
  \/ FinalBranch
  \/ ReportVideoTooLarge
  \/ EditSendingAudio
  \/ AudioStat
  \/ ReportAudioTooLarge
  \/ EditSendingVideo
  \/ AnswerAudio
  \/ AnswerVideo
  \/ DeleteStatus
  \/ Except
  \/ Finally

Spec == Init /\ [][Next]_vars

\* ------------------------------------------------- two messages at a time
\* The dispatcher runs each message's handler as a task of its own on the one
\* event loop: while a handler is suspended at an await (or its tool runs in the
\* executor) the other handler runs. The variables above are the locals of the
\* task that runs; parked holds those of the task that waits.
Running ==
  [message_text |-> message_text, text |-> text, pc |-> pc, tmp_dir |-> tmp_dir,
   original_path |-> original_path, probe |-> probe, has_video |-> has_video,
   prepared_path |-> prepared_path, kind |-> kind, final_path |-> final_path,
   exc |-> exc, calls |-> calls]

Switch ==
  /\ parked # NoRequest
  /\ parked' = Running
  /\ message_text' = parked.message_text
  /\ text' = parked.text
  /\ pc' = parked.pc
  /\ tmp_dir' = parked.tmp_dir
  /\ original_path' = parked.original_path
  /\ probe' = parked.probe
  /\ has_video' = parked.has_video
  /\ prepared_path' = parked.prepared_path
  /\ kind' = parked.kind
  /\ final_path' = parked.final_path
  /\ exc' = parked.exc
  /\ calls' = parked.calls
  /\ UNCHANGED <<fs, dirs>>

\* The inputs and outcomes the two-message runs draw from.
ConcTexts ==
  { <<"h", "t", "t", "p", "s", ":", "/", "/", "y", ".", "b", "e", "/", "a">>,
    <<"/", "s", "t", "a", "r", "t">> }
ConcNames == { <<"a", ".", "m", "p", "4">>, <<"a", ".", "w", "e", "b", "m">> }
ConcSizes == {TELEGRAM_MAX_FILE_SIZE, TELEGRAM_MAX_FILE_SIZE + MaxOver}
ConcFetchErrors ==
  { <<"E", "R", "R", "O", "R", ":", " ", "H", "T", "T", "P", " ", "E", "r", "r", "o", "r",
      " ", "4", "0", "3">> }
ConcProbeOutcomes ==
  { [avail |-> TRUE, exit |-> 0, out |-> <<"v", "i", "d", "e", "o", "\n">>],
    [avail |-> TRUE, exit |-> 0, out |-> <<>>] }

TransportOps ==
  {"answer", "callback_answer", "edit_text", "answer_video", "answer_audio", "delete"}

\* every transport call succeeds; the fetcher, the probe and the files on disk
\* are among the values above, and a download leaves no file but the one at
\* the path it returns, if any
ConcScope ==
  /\ \A i \in DOMAIN calls :
       /\ calls[i].op \in TransportOps => calls[i].ok
       /\ calls[i].op = "download"
            => IF calls[i].ok THEN calls[i].out.name \in ConcNames
               ELSE calls[i].err \in ConcFetchErrors
  /\ \A f \in fs : f.size \in ConcSizes
  /\ (calls # <<>> /\ calls[Len(calls)].op = "download")
       => \A f \in FilesIn(fs, tmp_dir) : f.path = calls[Len(calls)].out
  /\ probe \in ConcProbeOutcomes \cup {NoProbe}

InitConc ==
  /\ Init
  /\ message_text \in ConcTexts \cup {NoneText}

StartSecond ==
  /\ parked = NoRequest
  /\ \E t \in ConcTexts :
       parked' = [message_text |-> t, text |-> <<>>, pc |-> "route_message",
                  tmp_dir |-> NoDir,
                  original_path |-> NoPath, probe |-> NoProbe, has_video |-> FALSE,
                  prepared_path |-> NoPath, kind |-> "none", final_path |-> NoPath,
                  exc |-> NoExc, calls |-> <<>>]
  /\ UNCHANGED <<message_text, text, pc, tmp_dir, original_path, probe, has_video,
                 prepared_path, kind, final_path, exc, fs, dirs, calls>>

\* a step of the task that runs, its outcome among those above
InScope(step) == step /\ ConcScope'

NextConc ==
  \/ InScope(RouteMessage)
  \/ InScope(RouteCallbackQuery)
  \/ InScope(CmdStart)
  \/ InScope(OnHelp)
  \/ InScope(OnHelpAnswer)
  \/ InScope(CheckUrl)
  \/ InScope(AnswerStatus)
  \/ InScope(Mkdtemp)
  \/ InScope(DownloadVideo)
  \/ InScope(Probe)
  \/ InScope(PrepareMedia)
  \/ InScope(KindBranch)
  \/ InScope(CompressStat)
  \/ InScope(CompressRun)
  \/ InScope(FinalBranch)
  \/ InScope(ReportVideoTooLarge)
  \/ InScope(EditSendingAudio)
  \/ InScope(AudioStat)
  \/ InScope(ReportAudioTooLarge)
  \/ InScope(EditSendingVideo)
  \/ InScope(AnswerAudio)
  \/ InScope(AnswerVideo)
  \/ InScope(DeleteStatus)
  \/ InScope(Except)
  \/ InScope(Finally)
  \/ Switch
  \/ StartSecond

SpecConc == InitConc /\ [][NextConc]_vars

\* ================================================================ claims
\* What the claims speak of, read off the history of calls.
FailureTexts == {MSG_VIDEO_TOO_LARGE, MSG_AUDIO_TOO_LARGE, MSG_CAPTCHA, MSG_GENERIC}
EncoderOps == {"reencode_mp4", "convert_mp3", "compress"}
NormalizeOps == {"reencode_mp4", "convert_mp3"}

IsDeliverVideo(c) == c.op = "answer_video"
IsDeliverAudio(c) == c.op = "answer_audio"
IsDeliver(c) == IsDeliverVideo(c) \/ IsDeliverAudio(c)
IsReportFailure(c) == c.op = "edit_text" /\ c.msg \in FailureTexts
IsTerminal(c) == IsDeliver(c) \/ IsReportFailure(c)
IsAcceptedTerminal(c) == IsTerminal(c) /\ c.ok
IsTransport(c) == c.op \in TransportOps
IsRmtree(c) == c.op = "rmtree"
IsCompress(c) == c.op = "compress"
IsEncoder(c) == c.op \in EncoderOps

Where(P(_)) == {i \in DOMAIN calls : P(calls[i])}
Count(P(_)) == Cardinality(Where(P))
Reported(msg) == \E i \in DOMAIN calls : calls[i].op = "edit_text" /\ calls[i].msg = msg

\* The handler has returned (done) or an exception has left it (raised).
Finished == pc \in {"done", "raised"}
\* The text passes the URL check as the claims word it.
UrlShaped(t) == StartsWith(t, HttpPrefix) \/ StartsWith(t, HttpsPrefix)
AcceptedInput == UrlShaped(Strip(text_or_empty(message_text)))
StatusSent ==
  calls # <<>> /\ calls[1].op = "answer" /\ calls[1].msg = MSG_DOWNLOADING /\ calls[1].ok
AllTransportOk == \A i \in DOMAIN calls : IsTransport(calls[i]) => calls[i].ok

\* C1 as stated: for every accepted input, once the handling is over exactly one
\* of deliver_video, deliver_audio, report_failure has been invoked, exactly once
\* (stated here for the requests whose first status message was sent; a request
\* whose status message the transport refuses makes no terminal call at all).
C1_ExactlyOneTerminalCall ==
  (Finished /\ AcceptedInput /\ StatusSent) => Count(IsTerminal) = 1

\* C1 as amended: at most one deliver call is invoked and at most one terminal
\* call is accepted by the transport; once the status message was sent, at least
\* one terminal call is invoked before the handling is over; a second terminal
\* call is invoked only after the first one failed, and it is a report_failure;
\* when no transport call fails, exactly one terminal call is invoked.
C1_TerminalCalls ==
  /\ Count(IsDeliver) <= 1
  /\ Count(IsAcceptedTerminal) <= 1
  /\ Count(IsTerminal) <= 2
  /\ \A i, j \in Where(IsTerminal) :
       i < j => ~calls[i].ok /\ IsReportFailure(calls[j])
                  /\ calls[j].msg \in {MSG_GENERIC, MSG_CAPTCHA}
  /\ (Finished /\ AcceptedInput /\ StatusSent) => Count(IsTerminal) >= 1
  /\ (Finished /\ AcceptedInput /\ AllTransportOk) => Count(IsTerminal) = 1

C1_Witness ==
  /\ pc = "done"
  /\ AcceptedInput
  /\ Count(IsTerminal) = 1
  /\ \E i \in DOMAIN calls : IsDeliverVideo(calls[i]) /\ calls[i].ok

\* C2: once the Workspace was created, the handler tears it down on every exit
\* path, after the terminal outbound call and never before it, and a teardown
\* that hits a deletion error raises nothing: the handler ends as it would
\* have ended without the error.
C2_TeardownOnEveryExit ==
  /\ \A i \in Where(IsRmtree) : \A j \in Where(IsTerminal) : j < i
  /\ Count(IsRmtree) <= 1
  /\ (Finished /\ tmp_dir # NoDir) =>
       /\ Count(IsRmtree) = 1
       /\ IsRmtree(calls[Len(calls)])
       /\ Count(IsTerminal) >= 1
       /\ pc = "raised" <=> (IsReportFailure(calls[Len(calls) - 1])
                              /\ ~calls[Len(calls) - 1].ok)

\* a delivery failed, the report of the failure failed too, the deletion hit an
\* error, and the teardown was still attempted last
C2_Witness ==
  /\ pc = "raised"
  /\ tmp_dir # NoDir
  /\ tmp_dir \in dirs
  /\ IsRmtree(calls[Len(calls)])
  /\ \E i \in DOMAIN calls : IsDeliver(calls[i]) /\ ~calls[i].ok

\* The message is one the router gives to handle_video_message.
ForVideoHandler == route_message(message_text) = "start"

\* C3: for a text given to handle_video_message that, trimmed, starts with
\* neither "http://" nor "https://", the handler is a no-op: no outbound
\* message, no Workspace, no tool invoked.
C3_NonUrlIsNoOp ==
  (ForVideoHandler /\ ~AcceptedInput) =>
    /\ calls = <<>>
    /\ tmp_dir = NoDir
    /\ dirs = {}
    /\ fs = {}
    /\ pc \in {"route_message", "start", "done"}

C3_Witness ==
  /\ pc = "done"
  /\ ForVideoHandler
  /\ Contains(message_text, HttpsPrefix)
  /\ ~AcceptedInput
  /\ calls = <<>>

\* A probe output that is empty once decoded and trimmed.
BlankOutput(out) == \A i \in DOMAIN out : out[i] \in Whitespace \cup {"0xFF"}
Probed == probe # NoProbe

\* C4 as stated: the classifier returns true when the probing tool is
\* unavailable, when it exits with an error, and when it succeeds with empty
\* output.
C4_FailsOpenOnEmptyOutput ==
  (Probed /\ (~probe.avail \/ probe.exit # 0 \/ probe.out = <<>>)) => has_video

\* C4 as amended: the classifier returns true when the probing tool is
\* unavailable or exits with an error, and when it succeeds with a non-empty
\* result; it returns false exactly when the tool succeeds and its output,
\* decoded and trimmed, is empty.
C4_FailsOpenOnErrorOnly ==
  Probed => (has_video <=> ~(probe.avail /\ probe.exit = 0 /\ BlankOutput(probe.out)))

C4_Witness ==
  /\ Probed
  /\ ~probe.avail
  /\ has_video
  /\ pc = "normalize"

OverCap(p) == SizeOf(fs, p) > TELEGRAM_MAX_FILE_SIZE

\* C5: the size reducer never attempts a second pass: for a video larger than
\* the cap compress_if_needed invokes the encoder exactly once (and not at all
\* for one within the cap), no encoder is invoked after it, and it returns None
\* exactly when the encoder failed or its output is missing or still larger
\* than the cap.
C5_SingleCompressionPass ==
  /\ Count(IsCompress) <= 1
  /\ \A i \in Where(IsCompress) : \A j \in Where(IsEncoder) : j <= i
  /\ (pc = "final" /\ kind = "video") =>
       /\ Count(IsCompress) = IF OverCap(prepared_path) THEN 1 ELSE 0
       /\ OverCap(prepared_path) =>
            LET c == calls[Len(calls)]
            IN  /\ IsCompress(c)
                /\ c.path = prepared_path
                /\ final_path = NoPath
                     <=> (~c.ok \/ ~Exists(fs, c.out) \/ OverCap(c.out))
                /\ final_path # NoPath => final_path = c.out

\* the encoder ran once, wrote a file that is still larger than the cap, and
\* the reducer returned None
C5_Witness ==
  /\ pc = "final"
  /\ kind = "video"
  /\ Count(IsCompress) = 1
  /\ calls[Len(calls)].ok
  /\ Exists(fs, calls[Len(calls)].out)
  /\ OverCap(calls[Len(calls)].out)
  /\ final_path = NoPath

\* compress_if_needed has run the encoder and returned None
ReducerReturnedNone == Count(IsCompress) >= 1 /\ final_path = NoPath

\* C6: when the reducer returns None, the next call the handler makes is the
\* report_failure with the 50 MB message, and no deliver call is made.
C6_ReducerNoneFails ==
  ReducerReturnedNone =>
    /\ Count(IsDeliver) = 0
    /\ \A i \in Where(IsCompress) :
         IF Len(calls) > i
           THEN calls[i + 1].op = "edit_text" /\ calls[i + 1].msg = MSG_VIDEO_TOO_LARGE
           ELSE pc \in {"final", "video_too_large"}
    /\ Finished => Reported(MSG_VIDEO_TOO_LARGE)

C6_Witness ==
  /\ pc = "done"
  /\ ReducerReturnedNone
  /\ \E i \in DOMAIN calls :
       calls[i].op = "edit_text" /\ calls[i].msg = MSG_VIDEO_TOO_LARGE /\ calls[i].ok

\* the MP3 the normalizer returned is on disk and larger than the cap, and the
\* handler has made its last outbound call
OversizedAudioHandled ==
  /\ pc = "finally"
  /\ kind = "audio"
  /\ Exists(fs, final_path)
  /\ OverCap(final_path)
SendingAudioAccepted ==
  \E i \in DOMAIN calls :
    calls[i].op = "edit_text" /\ calls[i].msg = MSG_SENDING_AUDIO /\ calls[i].ok

\* C7 as stated: an audio never passes through the compression encoder, and
\* when the MP3 is larger than the cap the request ends with the report_failure
\* that carries the size-limit message, deliver_audio not being invoked.
C7_OversizedAudioGetsSizeMessage ==
  /\ kind = "audio" => Count(IsCompress) = 0
  /\ OversizedAudioHandled =>
       Reported(MSG_AUDIO_TOO_LARGE) /\ Count(IsDeliverAudio) = 0

\* C7 as amended: an audio never passes through the compression encoder and an
\* MP3 larger than the cap is never handed to deliver_audio; the report_failure
\* carries the size-limit message when the transport accepted the "sending
\* audio" status edit that precedes the size check, and the generic message
\* when that edit failed.
C7_OversizedAudioNeverDelivered ==
  /\ kind = "audio" => Count(IsCompress) = 0
  /\ OversizedAudioHandled =>
       /\ Count(IsDeliverAudio) = 0
       /\ IF SendingAudioAccepted
            THEN Reported(MSG_AUDIO_TOO_LARGE)
            ELSE Reported(MSG_GENERIC) /\ ~Reported(MSG_AUDIO_TOO_LARGE)

C7_Witness ==
  /\ OversizedAudioHandled
  /\ Reported(MSG_AUDIO_TOO_LARGE)
  /\ ~Reported(MSG_GENERIC)

\* C8: for an artifact classified as having video whose suffix is .mp4, compared
\* case-insensitively, prepare_media returns the same path with kind video and
\* invokes no encoder, and applied to its result it returns the same result.
C8_NormalizerIdempotent ==
  (pc = "kind" /\ has_video /\ Lower(suffix(original_path.name)) = DotMp4) =>
    /\ prepared_path = original_path
    /\ kind = "video"
    /\ Count(IsEncoder) = 0
    /\ LET again == prepare_media_plan(prepared_path, TRUE)
       IN  again.out = prepared_path /\ again.kind = kind /\ again.encoder = "none"

\* an upper-case .MP4 went through the normalizer unchanged
C8_Witness ==
  /\ pc = "kind"
  /\ has_video
  /\ suffix(original_path.name) # DotMp4
  /\ Lower(suffix(original_path.name)) = DotMp4
  /\ prepared_path = original_path

HasBotPhrase(t) == Contains(t, BotPhraseSignIn) \/ Contains(t, BotPhraseConfirm)
IsFailedFetch(c) == c.op = "download" /\ ~c.ok

\* C9: when the fetch fails with an error whose text contains the
\* bot-verification phrase, the report_failure carries the CAPTCHA message and
\* not the generic one; when the text does not contain it, the report_failure
\* carries the generic message.
C9_FetchFailureMessage ==
  \A i \in Where(IsFailedFetch) :
    LET want == IF HasBotPhrase(calls[i].err) THEN MSG_CAPTCHA ELSE MSG_GENERIC
    IN  /\ IF Len(calls) > i
             THEN calls[i + 1].op = "edit_text" /\ calls[i + 1].msg = want
             ELSE pc = "except"
        /\ \A j \in Where(IsReportFailure) : calls[j].msg = want
        /\ Count(IsReportFailure) <= 1

C9_Witness ==
  /\ pc = "done"
  /\ \E i \in Where(IsFailedFetch) : HasBotPhrase(calls[i].err)
  /\ Reported(MSG_CAPTCHA)
  /\ ~Reported(MSG_GENERIC)

IsFailedNormalize(c) == c.op \in NormalizeOps /\ ~c.ok

\* C10: a non-zero exit of a normalization encoder is fatal whatever the text of
\* its error: no encoder is invoked again, no deliver call is made, and the
\* message reported is the generic one, not the CAPTCHA one and not a
\* size-limit one.
C10_EncoderFailureIsGeneric ==
  \A i \in Where(IsFailedNormalize) :
    /\ \A j \in Where(IsEncoder) : j <= i
    /\ Count(IsDeliver) = 0
    /\ \A j \in Where(IsReportFailure) : calls[j].msg = MSG_GENERIC
    /\ Finished => Reported(MSG_GENERIC)


FailedReportEdit ==
  \E i \in DOMAIN calls : IsReportFailure(calls[i]) /\ ~calls[i].ok

\* C11: when a stage or the delivery fails and the edit of the status message to
\* an error text raises in its turn, that secondary error is swallowed: the
\* handler returns normally and no exception leaves it.
C11_SecondaryErrorSwallowed ==
  (Finished /\ StatusSent /\ FailedReportEdit) => (pc = "done" /\ ~exc.active)

\* The text is a well-formed absolute http(s) URL: the scheme, then a host that
\* is not empty, and no whitespace.
AfterScheme(t) ==
  IF StartsWith(t, HttpsPrefix) THEN SubSeq(t, Len(HttpsPrefix) + 1, Len(t))
  ELSE SubSeq(t, Len(HttpPrefix) + 1, Len(t))
WellFormedUrl(t) ==
  /\ UrlShaped(t)
  /\ AfterScheme(t) # <<>>
  /\ AfterScheme(t)[1] \notin {"/", "?", "#", ":"}
  /\ \A i \in DOMAIN t : t[i] \notin Whitespace
PipelineRan ==
  \E i \in DOMAIN calls : calls[i].op \in {"mkdtemp", "download"}

\* C12: the Workspace creation and the fetch run only for a text that is a
\* well-formed absolute URL with scheme http or https; a text that only begins
\* with "http://" or "https://" and has no host is rejected before them.
C12_PipelineOnlyForWellFormedUrl ==
  PipelineRan => WellFormedUrl(text)


\* C13: every file handed to answer_video or answer_audio is on disk and at most
\* TELEGRAM_MAX_FILE_SIZE bytes, just before the call and just after it; a video
\* of exactly the cap size goes on without a compression pass, and an audio is
\* refused for its size only when it is larger than the cap.
C13_DeliveredWithinCap ==
  /\ pc \in {"answer_video", "answer_audio"} =>
       Exists(fs, final_path) /\ SizeOf(fs, final_path) <= TELEGRAM_MAX_FILE_SIZE
  /\ (calls # <<>> /\ IsDeliver(calls[Len(calls)])) =>
       /\ Exists(fs, calls[Len(calls)].path)
       /\ SizeOf(fs, calls[Len(calls)].path) <= TELEGRAM_MAX_FILE_SIZE
  /\ (pc \in {"final", "sending_video", "answer_video"} /\ kind = "video"
        /\ Exists(fs, prepared_path)
        /\ SizeOf(fs, prepared_path) = TELEGRAM_MAX_FILE_SIZE) =>
       Count(IsCompress) = 0 /\ final_path = prepared_path
  /\ (pc = "audio_too_large") => OverCap(final_path)

\* a video of exactly the cap size was delivered, no compression pass made
C13_Witness ==
  /\ calls # <<>>
  /\ IsDeliverVideo(calls[Len(calls)])
  /\ calls[Len(calls)].ok
  /\ SizeOf(fs, calls[Len(calls)].path) = TELEGRAM_MAX_FILE_SIZE
  /\ Count(IsCompress) = 0

\* C14: whenever an encoder is invoked (normalize to MP4, convert to MP3,
\* compress), its output path is a file of the Workspace that differs from its
\* input path, whatever the suffix of the input.
C14_EncoderOutputIsNewFile ==
  \A i \in Where(IsEncoder) :
    calls[i].out # calls[i].path /\ calls[i].out.dir = tmp_dir


IsProbe(c) == c.op = "ffprobe"
IsNormalize(c) == c.op \in NormalizeOps
IsFetch(c) == c.op = "download"
\* a stage's tool; a stage fails when its tool does, except the probe, whose
\* failure the classifier turns into "has video"
IsTool(c) == IsFetch(c) \/ IsProbe(c) \/ IsEncoder(c)
IsFailedStage(c) == (IsFetch(c) \/ IsEncoder(c)) /\ ~c.ok

\* C15: within one request the stages are sequential and gated: the probe is
\* invoked only after the fetch returned a path, and on that path; a
\* normalization encoder only right after the probe; the compression encoder
\* only with kind video, after the probe and with no encoder failure before it,
\* on the normalizer's output; a deliver call only with a final artifact that
\* is not None and after no failed stage; after a failed stage no tool is
\* invoked and nothing is delivered.
C15_StagesSequential ==
  /\ \A i \in Where(IsFetch) :
       i > 1 /\ calls[i - 1].op = "mkdtemp" /\ calls[i - 1].ok
  /\ \A i \in Where(IsProbe) :
       i > 1 /\ IsFetch(calls[i - 1]) /\ calls[i - 1].ok
             /\ calls[i].path = calls[i - 1].out
  /\ \A i \in Where(IsNormalize) :
       i > 1 /\ IsProbe(calls[i - 1]) /\ calls[i].path = calls[i - 1].path
  /\ \A i \in Where(IsCompress) :
       /\ kind = "video"
       /\ calls[i].path = prepared_path
       /\ \E j \in Where(IsProbe) : j < i
       /\ \A j \in Where(IsNormalize) : j < i /\ calls[j].ok
                                          /\ calls[j].out = prepared_path
  /\ \A i \in Where(IsDeliver) :
       /\ final_path # NoPath
       /\ calls[i].path = final_path
       /\ \E j \in Where(IsProbe) : j < i
       /\ \A j \in Where(IsFailedStage) : FALSE
  /\ \A i \in Where(IsFailedStage) :
       \A j \in DOMAIN calls : j > i => ~IsTool(calls[j]) /\ ~IsDeliver(calls[j])
  /\ Count(IsFetch) <= 1 /\ Count(IsProbe) <= 1

\* all four stages ran, in order, and the video was delivered
C15_Witness ==
  /\ pc = "done"
  /\ \E i, j \in DOMAIN calls :
       /\ i < j
       /\ calls[i].op = "reencode_mp4" /\ calls[i].ok
       /\ IsCompress(calls[j]) /\ calls[j].ok
  /\ \E i \in Where(IsDeliverVideo) : calls[i].ok


IsConvert(c) == c.op = "convert_mp3"
IsReencode(c) == c.op = "reencode_mp4"

\* C16: deliver_audio is invoked only when the classifier reported no video,
\* and with the MP3 path the converter wrote to; deliver_video only when the
\* classifier reported video, with the compressed path when a compression pass
\* ran (and then it succeeded), otherwise with the normalizer's output path,
\* which is the original path for an .mp4 input and the re-encoder's output
\* otherwise; a superseded file is never the one delivered: the path delivered
\* is not the input path of a stage that ran, for audio as for video.
C16_DeliveryReflectsArtifact ==
  \A i \in Where(IsDeliver) :
    LET c == calls[i]
    IN  /\ IsDeliverAudio(c) =>
             /\ ~has_video /\ kind = "audio"
             /\ Count(IsCompress) = 0 /\ Count(IsReencode) = 0
             /\ suffix(c.path.name) = DotMp3
             /\ \E j \in Where(IsConvert) : j < i /\ calls[j].ok /\ c.path = calls[j].out
             /\ c.path # original_path
             /\ \A j \in Where(IsConvert) : c.path # calls[j].path
        /\ IsDeliverVideo(c) =>
             /\ has_video /\ kind = "video"
             /\ Count(IsConvert) = 0
             /\ IF Count(IsCompress) > 0
                  THEN /\ c.path # prepared_path
                       /\ \A j \in Where(IsCompress) :
                            j < i /\ calls[j].ok /\ c.path = calls[j].out
                  ELSE c.path = prepared_path
             /\ IF Count(IsReencode) > 0
                  THEN /\ c.path # original_path
                       /\ \A j \in Where(IsReencode) :
                            j < i /\ calls[j].ok /\ prepared_path = calls[j].out
                  ELSE /\ prepared_path = original_path
                       /\ Lower(suffix(original_path.name)) = DotMp4

DeliverAccepted == \E i \in Where(IsDeliver) : calls[i].ok

\* C17: once the transport has accepted deliver_video or deliver_audio, no
\* failure is reported: no failure text is written to the status message, a
\* failure of status.delete() is swallowed, and the handler returns normally
\* after the teardown of the Workspace.
C17_NoFailureAfterDelivery ==
  DeliverAccepted =>
    /\ Count(IsReportFailure) = 0
    /\ ~exc.active
    /\ pc \in {"delete_status", "finally", "done"}
    /\ \A i \in Where(IsDeliver) : \A j \in DOMAIN calls :
         j > i => calls[j].op \in {"delete", "rmtree"}
    /\ Finished => IsRmtree(calls[Len(calls)])

\* delivered, the deletion of the status message failed, returned normally
C17_Witness ==
  /\ pc = "done"
  /\ DeliverAccepted
  /\ \E i \in DOMAIN calls : calls[i].op = "delete" /\ ~calls[i].ok


\* ---------------------------------------------------------------- C18
\* The requests in hand: the one whose task runs and the one that waits.
Requests == {Running} \cup (IF parked = NoRequest THEN {} ELSE {parked})
CreatedWorkspaces(r) ==
  Cardinality({i \in DOMAIN r.calls : r.calls[i].op = "mkdtemp" /\ r.calls[i].ok})
HasFetched(r) == \E i \in DOMAIN r.calls : IsFetch(r.calls[i])
TornDown(r) == \E i \in DOMAIN r.calls : IsRmtree(r.calls[i])
\* the request holds a Workspace it has not torn down yet
Live(r) == r.tmp_dir # NoDir /\ ~TornDown(r)
\* every path the request holds or has handed to a tool
ArtifactPaths(r) ==
  ({r.original_path, r.prepared_path, r.final_path}
     \cup {r.calls[i].path : i \in DOMAIN r.calls}
     \cup {r.calls[i].out : i \in DOMAIN r.calls}) \ {NoPath}
OwnWorkspace(r) ==
  /\ CreatedWorkspaces(r) <= 1
  /\ HasFetched(r) => CreatedWorkspaces(r) = 1 /\ r.tmp_dir # NoDir
ArtifactsInside(r) == \A p \in ArtifactPaths(r) : p.dir = r.tmp_dir

\* C18: two requests handled at the same time do not share a Workspace: a
\* request never creates more than one directory and has created exactly one
\* by the time it fetches; every path it holds or hands to a tool lies in its
\* own directory; two requests that both hold a directory not yet torn down
\* hold different ones; and no step of the running request (its teardown
\* included) adds, removes or changes a file in the directory of the waiting
\* request while that one has not torn it down.
C18_NoSharedWorkspace ==
  /\ [](\A r \in Requests : OwnWorkspace(r) /\ ArtifactsInside(r))
  /\ [](parked # NoRequest /\ Live(Running) /\ Live(parked)
          => tmp_dir # parked.tmp_dir)
  /\ [][(parked' = parked /\ parked # NoRequest /\ Live(parked))
          => FilesIn(fs', parked.tmp_dir) = FilesIn(fs, parked.tmp_dir)]_vars

\* two requests for the same title, both with their Workspace on disk at once:
\* the running one has delivered and tears down next, the waiting one still
\* has its file to deliver
C18_Witness ==
  /\ parked # NoRequest
  /\ Live(Running) /\ Live(parked)
  /\ pc = "finally" /\ DeliverAccepted
  /\ parked.pc \in {"answer_video", "answer_audio"}
  /\ parked.original_path.name = original_path.name
  /\ tmp_dir # parked.tmp_dir
  /\ Exists(fs, final_path) /\ Exists(fs, parked.final_path)

\* Every external call the handler awaits returns or fails, and the event loop
\* then resumes the handler: a step that can be taken is eventually taken.
SpecLive == Spec /\ WF_vars(Next)

TeardownDone == tmp_dir # NoDir => (calls # <<>> /\ IsRmtree(calls[Len(calls)]))

\* C19: every request terminates without retry or loop: the handler eventually
\* returns or fails, the Workspace teardown then performed, and at no time has
\* it invoked the fetcher, the probe, a normalization encoder or the
\* compression encoder more than once.
C19_TerminatesWithoutRetry ==
  /\ <>(Finished /\ TeardownDone)
  /\ [](/\ Count(IsFetch) <= 1
        /\ Count(IsProbe) <= 1
        /\ Count(IsNormalize) <= 1
        /\ Count(IsCompress) <= 1)

\* a request that ran each of the four tools once has ended, torn down
C19_Witness ==
  /\ pc = "done"
  /\ AcceptedInput
  /\ Count(IsFetch) = 1 /\ Count(IsProbe) = 1
  /\ Count(IsNormalize) = 1 /\ Count(IsCompress) = 1
  /\ TeardownDone

=============================================================================
